---- MODULE Spec2Model ----
(***************************************************************************)
(* Model of server.js: an Express server over MongoDB (mongoose) with two  *)
(* singleton counters (visitor, question-request), chat records and a      *)
(* carousel image gallery.                                                 *)
(*                                                                         *)
(* Every await of a handler is one step of the model, so that the steps of *)
(* concurrent handlers interleave as they do on the event loop.  A storage *)
(* operation either completes or throws; it can complete only while the    *)
(* connection is ready.                                                    *)
(***************************************************************************)
EXTENDS Integers, Sequences, FiniteSets, TLC

\* ------------------------------------------------------------------ bounds
\* Number of requests the server admits in one run; all of them may be in
\* flight at the same time.
MaxRequests == 2
\* The database outlives the server: at startup a counter collection is empty
\* or holds one document, left by an earlier run, with a count in 1..MaxStored.
MaxStored == 1

Req == 1..MaxRequests

\* ------------------------------------------------------------- constants
Kinds == {"visitor", "question"}
Ops == {"get", "increment", "reset"}

\* mongoose.connection.readyState
Disconnected == 0
Connected == 1
Connecting == 2

\* let retries = 2
InitialRetries == 2

VARIABLES
    readyState,   \* mongoose.connection.readyState
    docs,         \* docs[k]: the documents of counter collection k, in natural order
    init,         \* init[k]: position of the startup initializer of kind k
    req,          \* req[r]: the counter request handled in slot r
    resp,         \* the response sent last, with the request it answers
    hist,         \* hist[k]: what has been asked of counter k since startup
    chat,         \* the chat records, in natural (insertion) order
    expected,     \* expected[id]: stored questionCount plus acknowledged increments
    gallery,      \* the carousel image records, in natural (insertion) order
    files,        \* names of the files in the upload directory
    jobs,         \* continuations of gallery requests: pending saves and unlinks
    uploaded,     \* ids of the gallery records created by an upload route
    nreq          \* number of requests admitted so far

chatVars == <<chat, expected>>
galleryVars == <<gallery, files, jobs, uploaded>>
vars == <<readyState, docs, init, req, resp, hist, chat, expected,
          gallery, files, jobs, uploaded, nreq>>

\* ------------------------------------------------------------- documents
\* A counter document held by a handler: id is the position of the stored
\* document it was loaded from, 0 for a document built with new and not yet
\* saved, -1 for null.
Null == [id |-> -1, count |-> 0, lastUpdated |-> 0]

\* new VisitorCounter({ count: c }): lastUpdated takes its default Date.now
NewCounter(c, t) == [id |-> 0, count |-> c, lastUpdated |-> t]

\* Model.findOne() with no filter: the first document in natural order, or null
FindOne(k) ==
    IF docs[k] = <<>> THEN Null
    ELSE [id |-> 1, count |-> docs[k][1].count, lastUpdated |-> docs[k][1].lastUpdated]

\* SaveDoc with both models bound to the visitor collection: a new document
\* of either kind is inserted there.
SaveDocShared(k, c) ==
    IF c.id = 0
    THEN [docs EXCEPT !["visitor"] = Append(@, [count |-> c.count, lastUpdated |-> c.lastUpdated])]
    ELSE [docs EXCEPT ![k][c.id] = [count |-> c.count, lastUpdated |-> c.lastUpdated]]

\* doc.save(): a new document is inserted; a loaded one is written back with
\* updateOne({_id}, {$set: {count, lastUpdated}}), the values the handler holds.
SaveDoc(k, c) ==
    IF c.id = 0
    THEN [docs EXCEPT ![k] = Append(@, [count |-> c.count, lastUpdated |-> c.lastUpdated])]
    ELSE [docs EXCEPT ![k][c.id] = [count |-> c.count, lastUpdated |-> c.lastUpdated]]

\* Date.now() and new Date().  The clock is read as the number of requests
\* admitted so far: it never goes back, and it need not advance between two
\* readings.
Now == nreq


\* isMongoReady with the test readyState !== 0: a connection that is still
\* being opened counts as ready.
isMongoReadyLoose == readyState # Disconnected

\* function isMongoReady()
isMongoReady == readyState = Connected

\* ------------------------------------------------------------ connection
\* mongoose.connect resolves: 'open' fires once and starts both initializers
Open ==
    /\ readyState = Connecting
    /\ readyState' = Connected
    /\ init' = [k \in Kinds |-> "find"]
    /\ UNCHANGED <<docs, req, resp, hist, nreq>>
    /\ UNCHANGED <<chatVars, galleryVars>>

\* 'disconnected' event: logged only
Disconnect ==
    /\ readyState = Connected
    /\ readyState' = Disconnected
    /\ UNCHANGED <<docs, init, req, resp, hist, nreq>>
    /\ UNCHANGED <<chatVars, galleryVars>>

\* 'reconnected' event: logged only
Reconnect ==
    /\ readyState = Disconnected
    /\ readyState' = Connected
    /\ UNCHANGED <<docs, init, req, resp, hist, nreq>>
    /\ UNCHANGED <<chatVars, galleryVars>>

\* ---------------------------------------------------------- initializers
\* const counter = await Model.findOne(); if (!counter) ... ; catch: log only
InitFind(k) ==
    /\ init[k] = "find"
    /\ \/ /\ isMongoReady
          /\ init' = [init EXCEPT ![k] = IF FindOne(k) = Null THEN "save" ELSE "done"]
       \/ init' = [init EXCEPT ![k] = "done"]
    /\ UNCHANGED <<readyState, docs, req, resp, hist, nreq>>
    /\ UNCHANGED <<chatVars, galleryVars>>

\* const newCounter = new Model({ count: 0 }); await newCounter.save()
InitSave(k) ==
    /\ init[k] = "save"
    /\ \/ /\ isMongoReady
          /\ docs' = SaveDoc(k, NewCounter(0, Now))
       \/ UNCHANGED docs
    /\ init' = [init EXCEPT ![k] = "done"]
    /\ UNCHANGED <<readyState, req, resp, hist, nreq>>
    /\ UNCHANGED <<chatVars, galleryVars>>

\* ------------------------------------------------------- counter routes
CounterRoute(k, op) ==
    CASE k = "visitor" /\ op = "increment" -> "POST /api/visitor"
      [] k = "visitor" /\ op = "get" -> "GET /api/visitor"
      [] k = "visitor" /\ op = "reset" -> "POST /api/visitor/reset"
      [] k = "question" /\ op = "increment" -> "POST /api/questions/request"
      [] k = "question" /\ op = "get" -> "GET /api/questions/request"
      [] k = "question" /\ op = "reset" -> "POST /api/questions/request/reset"

CounterRoutes == {CounterRoute(k, op) : k \in Kinds, op \in Ops}

Idle == [pc |-> "idle", kind |-> "visitor", op |-> "get", retries |-> 0,
         counter |-> Null, attempts |-> 0, failures |-> 0,
         alone |-> FALSE, afterReset |-> FALSE, before |-> 0, initDone |-> FALSE]

NoResponse == [route |-> "none", status |-> 0]

\* The request is being handled: no response yet.
InFlight(r) == req[r].pc \in {"find", "save", "wait"}

\* No request on counter k is being handled.
Quiet(k) == \A r \in Req : InFlight(r) => req[r].kind # k

\* The count a reader of collection k is given.
PersistedCount(k) == IF docs[k] = <<>> THEN 0 ELSE docs[k][1].count

\* The last response is the success of a reset of k that ran with no other
\* request on k in flight.
ResetJustDone(k) ==
    /\ resp.route = CounterRoute(k, "reset")
    /\ resp.status = 200 /\ resp.alone

\* A request arrives on a counter route while the connection is ready:
\* the middleware calls next() and the handler sets retries.  The request
\* is handled in the slot of its arrival number.
\*   alone:      no other request on k is in flight while this one is
\*   afterReset: the request arrived right after a reset of k was answered
\*   before:     the count a reader of k was given when the request arrived
\*   initDone:   the startup initializer of k had finished when it arrived
CounterStart(k, op) ==
    /\ nreq < MaxRequests
    /\ isMongoReady
    /\ req' = [r \in Req |->
                 IF r = nreq + 1
                 THEN [Idle EXCEPT !.pc = "find", !.kind = k, !.op = op,
                                   !.retries = InitialRetries,
                                   !.alone = Quiet(k),
                                   !.afterReset = Quiet(k) /\ ResetJustDone(k),
                                   !.before = PersistedCount(k),
                                   !.initDone = init[k] = "done"]
                 ELSE IF InFlight(r) /\ req[r].kind = k
                      THEN [req[r] EXCEPT !.alone = FALSE]
                      ELSE req[r]]
    /\ hist' = [hist EXCEPT ![k] =
                  IF op = "increment" /\ @.fresh THEN @ ELSE [fresh |-> FALSE, incs |-> 0]]
    /\ nreq' = nreq + 1
    /\ UNCHANGED <<readyState, docs, init, resp>>
    /\ UNCHANGED <<chatVars, galleryVars>>


\* Modify with a reset that stamps the document it found and leaves its count.
ModifyResetKeeps(op, c, t) ==
    CASE op = "get" -> IF c = Null THEN NewCounter(0, t) ELSE c
      [] op = "increment" ->
            IF c = Null THEN NewCounter(1, t)
            ELSE [c EXCEPT !.count = @ + 1, !.lastUpdated = t]
      [] op = "reset" ->
            IF c = Null THEN NewCounter(0, t)
            ELSE [c EXCEPT !.lastUpdated = t]

\* What the handler does to the document it found, before save.
\*   get:       if (!counter) counter = new Model({ count: 0 })
\*   increment: if (!counter) counter = new Model({ count: 1 })
\*              else { counter.count += 1; counter.lastUpdated = new Date() }
\*   reset:     if (!counter) counter = new Model({ count: 0 })
\*              else { counter.count = 0; counter.lastUpdated = new Date() }
Modify(op, c, t) ==
    CASE op = "get" -> IF c = Null THEN NewCounter(0, t) ELSE c
      [] op = "increment" ->
            IF c = Null THEN NewCounter(1, t)
            ELSE [c EXCEPT !.count = @ + 1, !.lastUpdated = t]
      [] op = "reset" ->
            IF c = Null THEN NewCounter(0, t)
            ELSE [c EXCEPT !.count = 0, !.lastUpdated = t]

\* The response to counter request q, with what is known of the request.
CounterResponse(q, status, count) ==
    [route |-> CounterRoute(q.kind, q.op), kind |-> q.kind, op |-> q.op, status |-> status,
     count |-> count, attempts |-> q.attempts, failures |-> q.failures,
     alone |-> q.alone, afterReset |-> q.afterReset,
     before |-> q.before, initDone |-> q.initDone]

\* return res.json({ success: true, count: counter.count, ... })
Respond200(r, q) ==
    /\ resp' = CounterResponse(q, 200, q.counter.count)
    /\ req' = [req EXCEPT ![r] = Idle]
    /\ hist' = [hist EXCEPT ![q.kind] =
                  IF q.op = "increment" /\ @.fresh THEN [@ EXCEPT !.incs = @ + 1] ELSE @]

\* return res.status(500).json({ success: false, error: ..., details: err.message })
Respond500(r, q) ==
    /\ resp' = CounterResponse(q, 500, 0)
    /\ req' = [req EXCEPT ![r] = Idle]
    /\ hist' = [hist EXCEPT ![q.kind] = [fresh |-> FALSE, incs |-> 0]]


\* Catch with the test retries < 0 in place of retries === 0: the last
\* failure is not answered.
CatchNoGiveUp(r, q) ==
    LET q2 == [q EXCEPT !.retries = @ - 1, !.failures = @ + 1] IN
    IF q2.retries < 0
    THEN Respond500(r, q2)
    ELSE /\ req' = [req EXCEPT ![r] = [q2 EXCEPT !.pc = "wait"]]
         /\ UNCHANGED <<resp, hist>>

\* catch (err) { retries--; if (retries === 0) return res.status(500)... ;
\*               await new Promise(resolve => setTimeout(resolve, 1000)) }
\* r's attempt has thrown; q is its state at the throw.
Catch(r, q) ==
    LET q2 == [q EXCEPT !.retries = @ - 1, !.failures = @ + 1] IN
    IF q2.retries = 0
    THEN Respond500(r, q2)
    ELSE /\ req' = [req EXCEPT ![r] = [q2 EXCEPT !.pc = "wait"]]
         /\ UNCHANGED <<resp, hist>>

\* CounterFind with counter declared outside the loop: a retry works on the
\* document the failed attempt held, if it held one, and does not read again.
CounterFindKeeps(r) ==
    /\ req[r].pc = "find"
    /\ LET q == [req[r] EXCEPT !.attempts = @ + 1] IN
       \/ /\ isMongoReady
          /\ LET c == Modify(q.op, IF q.counter = Null THEN FindOne(q.kind) ELSE q.counter, Now)
                 q2 == [q EXCEPT !.counter = c]
             IN IF q.op = "get" /\ c.id # 0
                THEN Respond200(r, q2)
                ELSE /\ req' = [req EXCEPT ![r] = [q2 EXCEPT !.pc = "save"]]
                     /\ UNCHANGED <<resp, hist>>
       \/ Catch(r, q)
    /\ UNCHANGED <<readyState, docs, init, nreq>>
    /\ UNCHANGED <<chatVars, galleryVars>>

\* let counter = await Model.findOne().maxTimeMS(5000), then the branch on it.
\* A get that found a document answers without saving.
CounterFind(r) ==
    /\ req[r].pc = "find"
    /\ LET q == [req[r] EXCEPT !.attempts = @ + 1] IN
       \/ /\ isMongoReady
          /\ LET c == Modify(q.op, FindOne(q.kind), Now)
                 q2 == [q EXCEPT !.counter = c]
             IN IF q.op = "get" /\ c.id # 0
                THEN Respond200(r, q2)
                ELSE /\ req' = [req EXCEPT ![r] = [q2 EXCEPT !.pc = "save"]]
                     /\ UNCHANGED <<resp, hist>>
       \/ Catch(r, q)
    /\ UNCHANGED <<readyState, docs, init, nreq>>
    /\ UNCHANGED <<chatVars, galleryVars>>

\* await counter.save(), then the success response
CounterSave(r) ==
    /\ req[r].pc = "save"
    /\ \/ /\ isMongoReady
          /\ docs' = SaveDoc(req[r].kind, req[r].counter)
          /\ Respond200(r, req[r])
       \/ /\ Catch(r, req[r])
          /\ UNCHANGED docs
    /\ UNCHANGED <<readyState, init, nreq>>
    /\ UNCHANGED <<chatVars, galleryVars>>

\* The 1000 ms timer fires and the loop condition while (retries > 0) is
\* evaluated: the next attempt starts, or the handler falls off the loop
\* without having answered.
CounterWait(r) ==
    /\ req[r].pc = "wait"
    /\ req' = [req EXCEPT ![r].pc = IF req[r].retries > 0 THEN "find" ELSE "exit"]
    /\ UNCHANGED <<readyState, docs, init, resp, hist, nreq>>
    /\ UNCHANGED <<chatVars, galleryVars>>

\* ------------------------------------------------------------ middleware
ChatRoutes == {"GET /api/data", "POST /api/data", "POST /api/data/:id/increment",
               "GET /api/questions/total-count", "DELETE /api/data/:id"}

\* app.use((req, res, next) => { if (!isMongoReady()) return res.status(503)... })
\* The middleware is registered before every route, and before upload.single.
ServiceUnavailable(route) ==
    /\ nreq < MaxRequests
    /\ ~isMongoReady
    /\ resp' = [route |-> route, status |-> 503, error |-> "Database not connected"]
    /\ nreq' = nreq + 1
    /\ UNCHANGED <<readyState, docs, init, req, hist>>
    /\ UNCHANGED <<chatVars, galleryVars>>

\* ----------------------------------------------------------- chat routes
\* A field absent from the request body.
Undefined == "(undefined)"
\* An :id that is no ObjectId: the query throws a CastError.
BadId == 0
\* new Model(...) gives each document a fresh _id.
NewId == nreq + 2
ChatIds == 1..(MaxRequests + 1)

Titles == {Undefined, "", "t"}
Contents == {Undefined, "", "c"}


\* Required without the test for the empty string.
RequiredLoose(v) == v # Undefined

\* required: true on a String path: undefined, null and '' are rejected
Required(v) == v \notin {Undefined, ""}

\* new Date().toLocaleString('vi-VN'): the display string of an instant
ToLocaleString(t) == <<"vi-VN", t>>

\* new ChatData({ title, content }) with the schema defaults
NewChatData(title, content) ==
    [id |-> NewId, title |-> title, content |-> content,
     date |-> ToLocaleString(Now), questionCount |-> 0, createdAt |-> Now]


\* Found with a filter that ignores the id: the first record matches.
FoundFirst(id) == IF chat = <<>> THEN {} ELSE {1}

\* Positions of the records with _id = id (at most one).
Found(id) == {i \in 1..Len(chat) : chat[i].id = id}

Remove(seq, i) == [j \in 1..(Len(seq) - 1) |-> IF j < i THEN seq[j] ELSE seq[j + 1]]


\* Inc as { $set: { questionCount: 1 } }.
IncSet(rec) == [rec EXCEPT !.questionCount = 1]

\* Inc that also refreshes the display date of the record.
IncTouch(rec) == [rec EXCEPT !.questionCount = @ + 1, !.date = ToLocaleString(Now)]

\* { $inc: { questionCount: 1 } }
Inc(rec) == [rec EXCEPT !.questionCount = @ + 1]

\* app.post('/api/data'): save() validates, then inserts; any throw is a 400
AddData(title, content, ok) ==
    /\ nreq < MaxRequests
    /\ isMongoReady
    /\ LET d == NewChatData(title, content)
           req0 == [route |-> "POST /api/data", title |-> title, content |-> content, ok |-> ok]
       IN IF Required(title) /\ Required(content) /\ ok
          THEN /\ chat' = Append(chat, d)
               /\ expected' = [expected EXCEPT ![d.id] = 0]
               /\ resp' = req0 @@ [status |-> 200,
                             body |-> [id |-> d.id, title |-> d.title,
                                       content |-> d.content, date |-> d.date]]
          ELSE /\ resp' = req0 @@ [status |-> 400, body |-> [error |-> "err.message"]]
               /\ UNCHANGED <<chatVars, galleryVars>>
    /\ nreq' = nreq + 1
    /\ UNCHANGED <<readyState, docs, init, req, hist, galleryVars>>

\* app.post('/api/data/:id/increment'): one findByIdAndUpdate, atomic in the store
IncrementData(id, ok) ==
    /\ nreq < MaxRequests
    /\ isMongoReady
    /\ LET req0 == [route |-> "POST /api/data/:id/increment", id |-> id, ok |-> ok] IN
       IF id = BadId \/ ~ok
       THEN /\ resp' = req0 @@ [status |-> 500, body |-> [error |-> "err.message"]]
            /\ UNCHANGED <<chatVars, galleryVars>>
       ELSE IF Found(id) = {}
       THEN /\ resp' = req0 @@ [status |-> 404, body |-> [error |-> "Question not found"]]
            /\ UNCHANGED <<chatVars, galleryVars>>
       ELSE LET i == CHOOSE i \in Found(id) : TRUE
                data == Inc(chat[i])
            IN /\ chat' = [chat EXCEPT ![i] = data]
               /\ expected' = [expected EXCEPT ![id] = @ + 1]
               /\ resp' = req0 @@ [status |-> 200,
                             body |-> [id |-> data.id, title |-> data.title,
                                       questionCount |-> data.questionCount]]
    /\ nreq' = nreq + 1
    /\ UNCHANGED <<readyState, docs, init, req, hist, galleryVars>>

\* DeleteData that tests the result of findByIdAndDelete: 404 when it is null.
DeleteDataStrict(id, ok) ==
    /\ nreq < MaxRequests
    /\ isMongoReady
    /\ LET req0 == [route |-> "DELETE /api/data/:id", id |-> id, ok |-> ok] IN
       IF id = BadId \/ ~ok
       THEN /\ resp' = req0 @@ [status |-> 500, body |-> [error |-> "err.message"]]
            /\ UNCHANGED <<chatVars, galleryVars>>
       ELSE IF Found(id) = {}
       THEN /\ resp' = req0 @@ [status |-> 404, body |-> [error |-> "Not found"]]
            /\ UNCHANGED <<chatVars, galleryVars>>
       ELSE /\ chat' = Remove(chat, CHOOSE i \in Found(id) : TRUE)
            /\ UNCHANGED expected
            /\ resp' = req0 @@ [status |-> 200, body |-> [message |-> "Deleted successfully"]]
    /\ nreq' = nreq + 1
    /\ UNCHANGED <<readyState, docs, init, req, hist, galleryVars>>

\* app.delete('/api/data/:id'): findByIdAndDelete, its result ignored
DeleteData(id, ok) ==
    /\ nreq < MaxRequests
    /\ isMongoReady
    /\ LET req0 == [route |-> "DELETE /api/data/:id", id |-> id, ok |-> ok] IN
       IF id = BadId \/ ~ok
       THEN /\ resp' = req0 @@ [status |-> 500, body |-> [error |-> "err.message"]]
            /\ UNCHANGED <<chatVars, galleryVars>>
       ELSE /\ chat' = IF Found(id) = {} THEN chat
                       ELSE Remove(chat, CHOOSE i \in Found(id) : TRUE)
            /\ UNCHANGED expected
            /\ resp' = req0 @@ [status |-> 200, body |-> [message |-> "Deleted successfully"]]
    /\ nreq' = nreq + 1
    /\ UNCHANGED <<readyState, docs, init, req, hist, galleryVars>>

RECURSIVE SumCounts(_)
\* questions.reduce((sum, q) => sum + (q.questionCount || 0), 0)
SumCounts(seq) ==
    IF seq = <<>> THEN 0 ELSE Head(seq).questionCount + SumCounts(Tail(seq))

\* app.get('/api/questions/total-count')
TotalCount(ok) ==
    /\ nreq < MaxRequests
    /\ isMongoReady
    /\ resp' = IF ok
               THEN [route |-> "GET /api/questions/total-count", ok |-> ok, status |-> 200,
                     body |-> [totalCount |-> SumCounts(chat), totalQuestions |-> Len(chat)]]
               ELSE [route |-> "GET /api/questions/total-count", ok |-> ok, status |-> 500,
                     body |-> [error |-> "err.message"]]
    /\ nreq' = nreq + 1
    /\ UNCHANGED <<readyState, docs, init, req, hist>>
    /\ UNCHANGED <<chatVars, galleryVars>>

RECURSIVE SortNewestFirst(_)
\* .sort({ createdAt: -1 }): insertion of each record before the first older one
SortNewestFirst(seq) ==
    IF seq = <<>> THEN <<>>
    ELSE LET rest == SortNewestFirst(Tail(seq))
             h == Head(seq)
             k == Cardinality({i \in 1..Len(rest) : rest[i].createdAt >= h.createdAt})
         IN SubSeq(rest, 1, k) \o <<h>> \o SubSeq(rest, k + 1, Len(rest))

\* data.map(item => ({ id: item._id, title, content, date }))
Format(seq) ==
    [i \in 1..Len(seq) |-> [id |-> seq[i].id, title |-> seq[i].title,
                            content |-> seq[i].content, date |-> seq[i].date]]

\* app.get('/api/data')
GetAllData(ok) ==
    /\ nreq < MaxRequests
    /\ isMongoReady
    /\ resp' = IF ok
               THEN [route |-> "GET /api/data", ok |-> ok, status |-> 200,
                     body |-> Format(SortNewestFirst(chat))]
               ELSE [route |-> "GET /api/data", ok |-> ok, status |-> 500,
                     body |-> [error |-> "err.message"]]
    /\ nreq' = nreq + 1
    /\ UNCHANGED <<readyState, docs, init, req, hist>>
    /\ UNCHANGED <<chatVars, galleryVars>>

\* -------------------------------------------------------- carousel routes
GalleryRoutes == {"GET /api/carousel", "POST /api/carousel", "POST /api/carousel/upload",
                  "POST /api/carousel/upload-base64", "DELETE /api/carousel/:id"}

\* Date.now() + '-' + Math.round(Math.random() * 1E9) + ext: a fresh file name
NewFile == nreq + 1
FileNames == 0..MaxRequests
GalleryIds == 1..(MaxRequests + 1)

\* An imageUrl is a path or an external address, held as its segments:
\* <<"uploads", f>> is `/uploads/${f}`.
UploadUrl(f) == <<"uploads", f>>
ExternalUrl == <<"https:", "cdn">>
NoUrl == <<>>

\* StartsWithUploads without the test of the prefix: any address with a path.
StartsWithAnything(url) == Len(url) >= 2

\* image.imageUrl.startsWith('/uploads/')
StartsWithUploads(url) == Len(url) >= 2 /\ url[1] = "uploads"

\* allowedMimes with application/pdf added to the list.
allowedMimesLoose == {"image/jpeg", "image/png", "image/gif", "image/webp", "application/pdf"}

\* const allowedMimes = ['image/jpeg', 'image/png', 'image/gif', 'image/webp']
allowedMimes == {"image/jpeg", "image/png", "image/gif", "image/webp"}
\* What the multipart body carries in its image field: no file, or a file of a type
Mimes == {"(no file)", "image/png", "application/pdf"}

GalleryTitles == {Undefined, "t"}
\* The order field of a request body: <<>> when absent, else <<n>>
Orders == {<<>>, <<1>>}

\* title || 'Untitled'
OrElse(x, d) == IF x \in {Undefined, ""} THEN d ELSE x

\* order || 0
OrZero(o) == IF o = <<>> THEN 0 ELSE o[1]

\* new CarouselImage({ title, imageUrl, alt, order }) with the schema defaults
NewCarouselImage(title, imageUrl, alt, order) ==
    [id |-> NewId, title |-> title, imageUrl |-> imageUrl,
     alt |-> IF alt = Undefined THEN "" ELSE alt,
     order |-> order, createdAt |-> Now]

\* title and imageUrl are required: true
ValidImage(img) == Required(img.title) /\ img.imageUrl # NoUrl

FoundImage(id) == {i \in 1..Len(gallery) : gallery[i].id = id}

RECURSIVE SortByOrder(_)
\* The stable sort by order: each record after the records of lower or equal
\* order that come before it, so that ties keep their insertion order.
SortByOrder(seq) ==
    IF seq = <<>> THEN <<>>
    ELSE LET rest == SortByOrder(SubSeq(seq, 1, Len(seq) - 1))
             l == seq[Len(seq)]
             k == Cardinality({i \in 1..Len(rest) : rest[i].order <= l.order})
         IN SubSeq(rest, 1, k) \o <<l>> \o SubSeq(rest, k + 1, Len(rest))

\* The rearrangements of seq.
Arrangements(seq) ==
    {[i \in 1..Len(seq) |-> seq[p[i]]] :
        p \in {q \in [1..Len(seq) -> 1..Len(seq)] :
                 \A i, j \in 1..Len(seq) : q[i] = q[j] => i = j}}

\* .sort({ order: 1 }): the records by ascending order.  The sort has no
\* second key, and the store returns documents of equal order in any order.
SortOutcomes(seq) ==
    {s \in Arrangements(seq) :
        \A i, j \in 1..Len(s) : i < j => s[i].order <= s[j].order}

\* app.get('/api/carousel')
ListImages(ok) ==
    /\ nreq < MaxRequests
    /\ isMongoReady
    /\ IF ok
       THEN \E images \in SortOutcomes(gallery) :
               resp' = [route |-> "GET /api/carousel", ok |-> ok, status |-> 200,
                        body |-> images]
       ELSE resp' = [route |-> "GET /api/carousel", ok |-> ok, status |-> 500,
                     body |-> [error |-> "err.message"]]
    /\ nreq' = nreq + 1
    /\ UNCHANGED <<readyState, docs, init, req, hist>>
    /\ UNCHANGED <<chatVars, galleryVars>>

\* app.post('/api/carousel'): the caller supplies the URL; no file is handled
AddImage(title, imageUrl, order, ok) ==
    /\ nreq < MaxRequests
    /\ isMongoReady
    /\ LET img == NewCarouselImage(title, imageUrl, Undefined, OrZero(order))
           req0 == [route |-> "POST /api/carousel", title |-> title,
                    imageUrl |-> imageUrl, order |-> order, ok |-> ok]
       IN IF ValidImage(img) /\ ok
          THEN /\ gallery' = Append(gallery, img)
               /\ resp' = req0 @@ [status |-> 200, body |-> img]
          ELSE /\ resp' = req0 @@ [status |-> 400, body |-> [error |-> "err.message"]]
               /\ UNCHANGED gallery
    /\ nreq' = nreq + 1
    /\ UNCHANGED <<readyState, docs, init, req, hist, chatVars, files, jobs, uploaded>>

\* The record either upload route builds for the file it has written.
UploadedImage(title, order) ==
    NewCarouselImage(OrElse(title, "Untitled"), UploadUrl(NewFile), "", OrZero(order))

\* app.post('/api/carousel/upload', upload.single('image'), ...) up to the
\* await of save(): multer filters the file by its mime type and writes it,
\* then the handler builds the record.
\*   no file part:       req.file is undefined, the handler answers 400
\*   type not allowed:   fileFilter passes an Error to next(), which Express
\*                       answers with 500; nothing is written
UploadStart(mime, title, order) ==
    /\ nreq < MaxRequests
    /\ isMongoReady
    /\ LET req0 == [route |-> "POST /api/carousel/upload", mime |-> mime, file |-> NewFile]
       IN IF mime = "(no file)"
          THEN /\ resp' = req0 @@ [status |-> 400, body |-> [error |-> "No image file provided"]]
               /\ UNCHANGED <<files, jobs>>
          ELSE IF mime \notin allowedMimes
          THEN /\ resp' = req0 @@ [status |-> 500, body |-> [error |-> "Only image files are allowed"]]
               /\ UNCHANGED <<files, jobs>>
          ELSE /\ files' = files \cup {NewFile}
               /\ jobs' = jobs \cup {[type |-> "save", route |-> "POST /api/carousel/upload",
                                      mime |-> mime, file |-> NewFile,
                                      image |-> UploadedImage(title, order)]}
               /\ UNCHANGED resp
    /\ nreq' = nreq + 1
    /\ UNCHANGED <<readyState, docs, init, req, hist, chatVars, gallery, uploaded>>

\* app.post('/api/carousel/upload-base64') up to the await of save():
\* fs.writeFileSync writes the decoded data, then the handler builds the record.
Base64Start(hasData, title, order) ==
    /\ nreq < MaxRequests
    /\ isMongoReady
    /\ LET req0 == [route |-> "POST /api/carousel/upload-base64", hasData |-> hasData,
                    file |-> NewFile]
       IN IF ~hasData
          THEN /\ resp' = req0 @@ [status |-> 400, body |-> [error |-> "No image data provided"]]
               /\ UNCHANGED <<files, jobs>>
          ELSE /\ files' = files \cup {NewFile}
               /\ jobs' = jobs \cup {[type |-> "save", route |-> "POST /api/carousel/upload-base64",
                                      file |-> NewFile, image |-> UploadedImage(title, order)]}
               /\ UNCHANGED resp
    /\ nreq' = nreq + 1
    /\ UNCHANGED <<readyState, docs, init, req, hist, chatVars, gallery, uploaded>>

\* UploadSave with the catch block of the base64 route on both routes: the
\* file is left where it was written.
UploadSaveNoCleanup(j) ==
    /\ j \in jobs /\ j.type = "save"
    /\ LET req0 == [route |-> j.route, file |-> j.file] IN
       \/ /\ isMongoReady
          /\ gallery' = Append(gallery, j.image)
          /\ uploaded' = uploaded \cup {j.image.id}
          /\ resp' = req0 @@ [status |-> 200, body |-> j.image]
       \/ /\ UNCHANGED <<gallery, uploaded>>
          /\ resp' = req0 @@ [status |-> 400, body |-> [error |-> "err.message"]]
    /\ jobs' = jobs \ {j}
    /\ UNCHANGED <<readyState, docs, init, req, hist, chatVars, files, nreq>>

\* UploadSave with the catch block of the multipart route on both routes: the
\* file is unlinked whichever route wrote it.
UploadSaveCleansBoth(j) ==
    /\ j \in jobs /\ j.type = "save"
    /\ LET req0 == [route |-> j.route, file |-> j.file] IN
       \/ /\ isMongoReady
          /\ gallery' = Append(gallery, j.image)
          /\ uploaded' = uploaded \cup {j.image.id}
          /\ jobs' = jobs \ {j}
          /\ resp' = req0 @@ [status |-> 200, body |-> j.image]
       \/ /\ UNCHANGED <<gallery, uploaded>>
          /\ jobs' = (jobs \ {j}) \cup {[type |-> "unlink", file |-> j.file]}
          /\ resp' = req0 @@ [status |-> 400, body |-> [error |-> "err.message"]]
    /\ UNCHANGED <<readyState, docs, init, req, hist, chatVars, files, nreq>>

\* await newImage.save() of either upload route, and what follows: the success
\* response, or the catch block.  Only the multipart route unlinks the file:
\*   if (req.file) { fs.unlink(req.file.path, () => {}) }
UploadSave(j) ==
    /\ j \in jobs /\ j.type = "save"
    /\ LET req0 == [route |-> j.route, file |-> j.file] IN
       \/ /\ isMongoReady
          /\ gallery' = Append(gallery, j.image)
          /\ uploaded' = uploaded \cup {j.image.id}
          /\ jobs' = jobs \ {j}
          /\ resp' = req0 @@ [status |-> 200, body |-> j.image]
       \/ /\ UNCHANGED <<gallery, uploaded>>
          /\ jobs' = (jobs \ {j}) \cup
                       (IF j.route = "POST /api/carousel/upload"
                        THEN {[type |-> "unlink", file |-> j.file]} ELSE {})
          /\ resp' = req0 @@ [status |-> 400, body |-> [error |-> "err.message"]]
    /\ UNCHANGED <<readyState, docs, init, req, hist, chatVars, files, nreq>>

\* fs.unlink(path, callback) completes: the file is removed if it is there;
\* an error is logged or ignored.
Unlink(j) ==
    /\ j \in jobs /\ j.type = "unlink"
    /\ files' = files \ {j.file}
    /\ jobs' = jobs \ {j}
    /\ UNCHANGED <<readyState, docs, init, req, resp, hist, chatVars, gallery, uploaded, nreq>>

\* app.delete('/api/carousel/:id'): findByIdAndDelete, then the file of the
\* deleted record is unlinked if its imageUrl starts with /uploads/.  The
\* response is recorded with what findByIdAndDelete returned: <<>> for null
\* (or a throw), else <<image>>.
DeleteImage(id, ok) ==
    /\ nreq < MaxRequests
    /\ isMongoReady
    /\ LET req0 == [route |-> "DELETE /api/carousel/:id", id |-> id, ok |-> ok] IN
       IF id = BadId \/ ~ok
       THEN /\ resp' = req0 @@ [status |-> 500, image |-> <<>>,
                                body |-> [error |-> "err.message"]]
            /\ UNCHANGED <<gallery, jobs>>
       ELSE IF FoundImage(id) = {}
       THEN /\ resp' = req0 @@ [status |-> 200, image |-> <<>>,
                                body |-> [message |-> "Deleted successfully"]]
            /\ UNCHANGED <<gallery, jobs>>
       ELSE LET i == CHOOSE i \in FoundImage(id) : TRUE
                image == gallery[i]
            IN /\ resp' = req0 @@ [status |-> 200, image |-> <<image>>,
                                   body |-> [message |-> "Deleted successfully"]]
               /\ gallery' = Remove(gallery, i)
               /\ jobs' = IF StartsWithUploads(image.imageUrl)
                          THEN jobs \cup {[type |-> "unlink", file |-> image.imageUrl[2]]}
                          ELSE jobs
    /\ nreq' = nreq + 1
    /\ UNCHANGED <<readyState, docs, init, req, hist, chatVars, files, uploaded>>

\* ------------------------------------------------------------------ spec
\* What a counter collection may hold when the server starts.
StoredCounters ==
    {<<>>} \cup {<<[count |-> c, lastUpdated |-> 0]>> : c \in 1..MaxStored}

\* What the chat collection may hold when the server starts.
StoredChat ==
    {<<>>} \cup {<<[id |-> 1, title |-> "t", content |-> "c", date |-> ToLocaleString(0),
                    questionCount |-> q, createdAt |-> 0]>> : q \in 0..MaxStored}

\* What the gallery and the upload directory may hold when the server starts:
\* nothing, or one image uploaded in an earlier run, with its file.
StoredGallery ==
    {[gallery |-> <<>>, files |-> {}],
     [gallery |-> <<[id |-> 1, title |-> "t", imageUrl |-> UploadUrl(0), alt |-> "",
                     order |-> 0, createdAt |-> 0]>>, files |-> {0}]}

InitServer ==
    /\ readyState = Connecting
    /\ jobs = {}
    /\ uploaded = {gallery[i].id : i \in 1..Len(gallery)}
    /\ init = [k \in Kinds |-> "idle"]
    /\ req = [r \in Req |-> Idle]
    /\ resp = NoResponse
    /\ hist = [k \in Kinds |-> [fresh |-> PersistedCount(k) = 0, incs |-> 0]]
    /\ expected = [id \in ChatIds |->
                     IF chat # <<>> /\ id = 1 THEN chat[1].questionCount ELSE 0]
    /\ nreq = 0

ConnectionNext ==
    \/ Open
    \/ Disconnect
    \/ Reconnect
    \/ \E k \in Kinds : InitFind(k)
    \/ \E k \in Kinds : InitSave(k)

CounterNext ==
    \/ \E k \in Kinds, op \in Ops : CounterStart(k, op)
    \/ \E r \in Req : CounterFind(r)
    \/ \E r \in Req : CounterSave(r)
    \/ \E r \in Req : CounterWait(r)

ChatNext ==
    \/ \E title \in Titles, content \in Contents, ok \in BOOLEAN : AddData(title, content, ok)
    \/ \E id \in ChatIds \cup {BadId}, ok \in BOOLEAN : IncrementData(id, ok)
    \/ \E id \in ChatIds \cup {BadId}, ok \in BOOLEAN : DeleteData(id, ok)
    \/ \E ok \in BOOLEAN : TotalCount(ok)
    \/ \E ok \in BOOLEAN : GetAllData(ok)

\* The counters alone, over every stored state of the two collections.
CounterInit ==
    /\ docs \in [Kinds -> StoredCounters]
    /\ chat = <<>>
    /\ gallery = <<>> /\ files = {}
    /\ InitServer

CounterSpecNext ==
    \/ ConnectionNext
    \/ CounterNext
    \/ \E route \in CounterRoutes : ServiceUnavailable(route)

CounterSpec == CounterInit /\ [][CounterSpecNext]_vars

\* The chat records alone.
ChatInit ==
    /\ docs = [k \in Kinds |-> <<>>]
    /\ chat \in StoredChat
    /\ gallery = <<>> /\ files = {}
    /\ InitServer

ChatSpecNext ==
    \/ ConnectionNext
    \/ ChatNext
    \/ \E route \in ChatRoutes : ServiceUnavailable(route)

ChatSpec == ChatInit /\ [][ChatSpecNext]_vars

GalleryNext ==
    \/ \E ok \in BOOLEAN : ListImages(ok)
    \/ \E title \in GalleryTitles, ok \in BOOLEAN, order \in Orders,
          url \in {NoUrl, ExternalUrl} \cup {UploadUrl(f) : f \in FileNames} :
          AddImage(title, url, order, ok)
    \/ \E mime \in Mimes, title \in GalleryTitles, order \in Orders :
          UploadStart(mime, title, order)
    \/ \E hasData \in BOOLEAN, title \in GalleryTitles, order \in Orders :
          Base64Start(hasData, title, order)
    \/ \E j \in jobs : UploadSave(j)
    \/ \E j \in jobs : Unlink(j)
    \/ \E id \in GalleryIds \cup {BadId}, ok \in BOOLEAN : DeleteImage(id, ok)

\* The gallery alone.
GalleryInit ==
    /\ docs = [k \in Kinds |-> <<>>]
    /\ chat = <<>>
    /\ \E g \in StoredGallery : gallery = g.gallery /\ files = g.files
    /\ InitServer

GallerySpecNext ==
    \/ ConnectionNext
    \/ GalleryNext
    \/ \E route \in GalleryRoutes : ServiceUnavailable(route)

GallerySpec == GalleryInit /\ [][GallerySpecNext]_vars

\* The gallery with the event loop's guarantee that a callback that is due
\* runs: a save that was awaited settles and an unlink that was issued completes.
GalleryLiveSpec ==
    /\ GallerySpec
    /\ WF_vars(\E j \in jobs : UploadSave(j))
    /\ WF_vars(\E j \in jobs : Unlink(j))

\* The whole server, started on a database in which the visitor counter has
\* never been used and every other collection holds one document.
Routes == CounterRoutes \cup ChatRoutes \cup GalleryRoutes \cup {"GET /admin", "GET /"}

Init ==
    /\ docs = [k \in Kinds |-> IF k = "visitor" THEN <<>>
                                ELSE <<[count |-> MaxStored, lastUpdated |-> 0]>>]
    /\ chat = <<[id |-> 1, title |-> "t", content |-> "c", date |-> ToLocaleString(0),
                 questionCount |-> MaxStored, createdAt |-> 0]>>
    /\ \E g \in StoredGallery : g.files # {} /\ gallery = g.gallery /\ files = g.files
    /\ InitServer

Next ==
    \/ ConnectionNext
    \/ CounterNext
    \/ ChatNext
    \/ GalleryNext
    \/ \E route \in Routes : ServiceUnavailable(route)

Spec == Init /\ [][Next]_vars

\* ---------------------------------------------------------------- claims
CounterResponded == resp.route \in CounterRoutes /\ resp.status # 503

\* C1: N concurrent increments of a freshly initialized counter that all
\* succeed leave the persisted count at N.  Stated for a collection that holds
\* a single document, once no request on that counter is in flight: the count
\* equals the number of increments answered with success.
C1_NoLostUpdates ==
    \A k \in Kinds :
        (hist[k].fresh /\ Quiet(k) /\ Len(docs[k]) <= 1)
            => PersistedCount(k) = hist[k].incs

\* C2: each counter collection holds at most one document.
C2_AtMostOneDocument == \A k \in Kinds : Len(docs[k]) <= 1

\* C3: the read-modify-write sequence is attempted up to 3 times in total:
\* HTTP 500 is sent only after 3 failed attempts (a request whose first two
\* attempts failed gets a third).
C3_ThreeAttempts ==
    (CounterResponded /\ resp.status = 500) => resp.failures = 3

\* C4: every counter request is answered exactly once: a success is sent by the
\* first attempt that succeeds, which is the last attempt made; HTTP 500 is sent
\* only when every attempt the loop allows has failed; the loop never ends
\* without a response, and a handler that has answered makes no further step.
C4_ExactlyOneResponse ==
    /\ \A r \in Req : req[r].pc # "exit"
    /\ \A r \in Req : InFlight(r) =>
          /\ ENABLED (CounterFind(r) \/ CounterSave(r) \/ CounterWait(r))
          /\ req[r].retries > 0
          /\ req[r].failures = InitialRetries - req[r].retries
          /\ req[r].attempts = req[r].failures + (IF req[r].pc = "save" THEN 1 ELSE 0)
    /\ CounterResponded =>
          /\ resp.status \in {200, 500}
          /\ resp.status = 200 => resp.attempts = resp.failures + 1
          /\ resp.status = 500 =>
                resp.failures = InitialRetries /\ resp.attempts = resp.failures

C4_Witness ==
    /\ CounterResponded /\ resp.status = 200 /\ resp.failures = 1
    /\ \E r \in Req : InFlight(r) /\ req[r].failures = 1

\* C5: a request that arrives while the connection is not ready is answered
\* 503 "Database not connected" and nothing else happens: no handler starts,
\* no counter, chat or gallery document and no file of the upload directory
\* is created, changed or removed, and no save or unlink is scheduled.
C5_NotReadyAnswers503 ==
    [][(nreq' = nreq + 1 /\ readyState # Connected) =>
          /\ resp'.status = 503
          /\ resp'.error = "Database not connected"
          /\ UNCHANGED <<docs, init, req, chat, gallery, files, jobs>>]_vars

C5_Witness ==
    /\ resp.route = "POST /api/carousel/upload" /\ resp.status = 503
    /\ readyState = Disconnected
    /\ nreq = 2 /\ files = {0} /\ Len(gallery) = 1 /\ jobs = {}
    /\ Len(chat) = 2

\* C6: a get that follows a successful reset of the same counter, with no
\* other request on that counter in between, returns count 0.
C6_ResetThenGet ==
    (/\ CounterResponded /\ resp.op = "get" /\ resp.status = 200
     /\ resp.afterReset /\ resp.alone)
        => resp.count = 0

C6_Witness ==
    /\ CounterResponded /\ resp.op = "get" /\ resp.status = 200
    /\ resp.afterReset /\ resp.alone
    /\ resp.count = 0 /\ docs[resp.kind][1].lastUpdated > 0

\* C7: incrementQuestion on a well-formed id that matches no record answers
\* 404 and changes no record; on an existing id it answers 200, raises that
\* record's questionCount by exactly 1 and changes nothing else.  (The storage
\* operation is taken to complete: when it throws the answer is 500.)
IncrementAnswered ==
    /\ nreq' = nreq + 1
    /\ resp'.route = "POST /api/data/:id/increment"
    /\ resp'.status # 503

C8_AtomicIncrement ==
    \A i \in 1..Len(chat) : chat[i].questionCount = expected[chat[i].id]

C8_Witness ==
    /\ resp.route = "POST /api/data/:id/increment" /\ resp.status = 200
    /\ \E i \in 1..Len(chat) :
          /\ chat[i].id = resp.id
          /\ chat[i].questionCount = MaxStored + 2

\* C9: a record that exists is changed only by an increment (questionCount + 1)
\* or removed: its questionCount never decreases and its title, content, date
\* and createdAt never change while it exists.
C9_Lifecycle ==
    [][\A i \in 1..Len(chat) : \A j \in 1..Len(chat') :
          chat'[j].id = chat[i].id =>
             /\ chat'[j].questionCount \in {chat[i].questionCount, chat[i].questionCount + 1}
             /\ chat'[j].title = chat[i].title
             /\ chat'[j].content = chat[i].content
             /\ chat'[j].date = chat[i].date
             /\ chat'[j].createdAt = chat[i].createdAt]_vars

C9_Witness ==
    /\ resp.route = "DELETE /api/data/:id" /\ resp.status = 200
    /\ Len(chat) = 1 /\ chat[1].id # resp.id
    /\ nreq = 2

\* C10: adding a record with an empty or missing title or content answers
\* 400 and stores nothing; with both present (and the save completing) it
\* answers 200, stores exactly one new record with questionCount 0 and
\* returns it.
AddAnswered ==
    /\ nreq' = nreq + 1
    /\ resp'.route = "POST /api/data"
    /\ resp'.status # 503

C10_AddValidation ==
    [][AddAnswered =>
         IF resp'.title \in {Undefined, ""} \/ resp'.content \in {Undefined, ""}
         THEN resp'.status = 400 /\ chat' = chat
         ELSE resp'.ok =>
                /\ resp'.status = 200
                /\ Len(chat') = Len(chat) + 1
                /\ SubSeq(chat', 1, Len(chat)) = chat
                /\ LET d == chat'[Len(chat')] IN
                     /\ d.questionCount = 0
                     /\ d.title = resp'.title /\ d.content = resp'.content
                     /\ \A i \in 1..Len(chat) : chat[i].id # d.id
                     /\ resp'.body = [id |-> d.id, title |-> d.title,
                                      content |-> d.content, date |-> d.date]]_vars

C10_Witness ==
    /\ resp.route = "POST /api/data" /\ resp.status = 400 /\ resp.ok
    /\ resp.title = "" /\ resp.content = "c"
    /\ chat # <<>>

\* A request on the multipart upload route has been answered in this step
\* (a file that passes the filter is answered later, by the step of its save).
UploadAnswered ==
    /\ nreq' = nreq + 1
    /\ resp' # resp
    /\ resp'.route = "POST /api/carousel/upload"
    /\ resp'.status # 503

\* The request carried a file whose type is none of the four image types.
UnsupportedType(r) ==
    r.mime \notin {"(no file)", "image/jpeg", "image/png", "image/gif", "image/webp"}

\* C11: a multipart upload whose mime type is not image/jpeg, image/png,
\* image/gif or image/webp is rejected before any storage write: no file is
\* written to the upload directory, no gallery record is created and no save
\* or unlink is scheduled; a file that is written and awaits its save is of
\* one of the four types.
C11_RejectedBeforeWrite ==
    /\ [][(UploadAnswered /\ UnsupportedType(resp')) =>
          /\ resp'.status >= 400
          /\ UNCHANGED <<gallery, files, jobs>>]_vars
    /\ [][\A j \in jobs' \ jobs :
            (j.type = "save" /\ j.route = "POST /api/carousel/upload")
               => ~UnsupportedType(j)]_vars

C11_Witness ==
    /\ resp.route = "POST /api/carousel/upload" /\ resp.status = 500
    /\ resp.mime = "application/pdf"
    /\ resp.file \notin files
    /\ nreq = 2 /\ Cardinality(files) = 2 /\ Len(gallery) = 2

\* C12: a multipart upload rejected for an unsupported mime type is answered
\* with HTTP 400, not with HTTP 500.
C12_UnsupportedIs400 ==
    [][(UploadAnswered /\ UnsupportedType(resp')) => resp'.status = 400]_vars

\* The save awaited by job j has thrown in this step.
SaveFailed(j) ==
    /\ j \in jobs /\ j.type = "save"
    /\ j \notin jobs'
    /\ gallery' = gallery

\* The last response is the 400 of an upload on route whose save threw,
\* after file f was written.
FailedUpload(route, f) ==
    /\ resp.route = route /\ resp.status = 400
    /\ resp.body.error = "err.message"
    /\ resp.file = f

C14_Base64NoCleanup ==
    [][\A j \in jobs :
         (SaveFailed(j) /\ j.route = "POST /api/carousel/upload-base64") =>
            /\ resp'.route = j.route /\ resp'.file = j.file
            /\ resp'.status = 400
            /\ files' = files
            /\ jobs' = jobs \ {j}]_vars

C14_Witness ==
    \E f \in FileNames :
        /\ FailedUpload("POST /api/carousel/upload-base64", f)
        /\ f \in files /\ jobs = {}
        /\ \A i \in 1..Len(gallery) : gallery[i].imageUrl # UploadUrl(f)

\* C15: deleting a gallery image whose imageUrl does not begin with /uploads/
\* removes only its record: the request is answered 200, every other record
\* is unchanged, no file of the upload directory is deleted and no unlink is
\* issued.
C15_ExternalDelete ==
    [][\A i \in 1..Len(gallery) :
         (/\ gallery[i].imageUrl \notin {UploadUrl(f) : f \in FileNames}
          /\ \A j \in 1..Len(gallery') : gallery'[j].id # gallery[i].id) =>
            /\ resp'.route = "DELETE /api/carousel/:id"
            /\ resp'.status = 200 /\ resp'.id = gallery[i].id
            /\ gallery' = Remove(gallery, i)
            /\ files' = files
            /\ jobs' = jobs]_vars

C15_Witness ==
    /\ resp.route = "DELETE /api/carousel/:id" /\ resp.status = 200
    /\ resp.image # <<>> /\ resp.image[1].imageUrl = ExternalUrl
    /\ Len(gallery) = 1 /\ gallery[1].imageUrl = UploadUrl(0)
    /\ files = {0} /\ jobs = {}

\* A request on the metadata-only add route has been answered in this step
\* (an upload that is not answered in the step of its arrival writes a file).
AddImageAnswered ==
    /\ nreq' = nreq + 1
    /\ files' = files
    /\ resp'.route = "POST /api/carousel"
    /\ resp'.status # 503

\* C16: the metadata-only add requires only imageUrl: with imageUrl present
\* (and the save completing) it answers 200 and stores one record, with the
\* placeholder title when title is absent, alt = '' and order = 0 when order
\* is absent; without imageUrl it fails and stores nothing.
C16_OnlyImageUrlRequired ==
    [][AddImageAnswered =>
         IF resp'.imageUrl = NoUrl
         THEN resp'.status >= 400 /\ gallery' = gallery
         ELSE resp'.ok =>
                /\ resp'.status = 200
                /\ Len(gallery') = Len(gallery) + 1
                /\ SubSeq(gallery', 1, Len(gallery)) = gallery
                /\ LET img == gallery'[Len(gallery')] IN
                     /\ img.imageUrl = resp'.imageUrl
                     /\ img.title = OrElse(resp'.title, "Untitled")
                     /\ img.alt = ""
                     /\ img.order = OrZero(resp'.order)]_vars

\* A request on the chat delete route has been answered in this step.
DeleteAnswered ==
    /\ nreq' = nreq + 1
    /\ resp'.route = "DELETE /api/data/:id"
    /\ resp'.status # 503

C18_ListOrder ==
    [][(/\ nreq' = nreq + 1 /\ files' = files
        /\ resp'.route = "GET /api/carousel" /\ resp'.status = 200)
          => resp'.body = SortByOrder(gallery)]_vars

\* The kind of the counter request that slot r holds before or after a step.
KindOf(r) == IF req[r].pc = "idle" THEN req'[r].kind ELSE req[r].kind

\* C19: the two counters are independent: every step of a get, increment or
\* reset request on one kind (its arrival, a find, a save, a wait, successful
\* or failed) leaves the documents of the other kind, count and lastUpdated,
\* unchanged.
C19_CountersIndependent ==
    [][\A r \in Req : req'[r] # req[r] =>
          \A k \in Kinds \ {KindOf(r)} : docs'[k] = docs[k]]_vars

C19_Witness ==
    /\ CounterResponded /\ resp.status = 200
    /\ resp.kind = "visitor" /\ resp.op = "increment" /\ resp.failures = 1
    /\ docs["visitor"] # <<>> /\ docs["visitor"][1].count = MaxStored + 1
    /\ docs["question"] = <<[count |-> MaxStored, lastUpdated |-> 0]>>

C21_UploadedFilesPresent ==
    \A i \in 1..Len(gallery) :
        gallery[i].id \in uploaded =>
            \E f \in files : gallery[i].imageUrl = UploadUrl(f)

====
